---- MODULE Spec2Model ----
(***************************************************************************)
(* A model of kt_bbg.py: the BBG facade over a Bloomberg terminal object   *)
(* (self.dm), its memoized methods, the tenor-tag parser and the OIS       *)
(* lookup.                                                                 *)
(*                                                                         *)
(* Text is a sequence of one-character strings.  A tenor value is the      *)
(* exact rational num/den of the product num*mult that the code computes   *)
(* in floating point.                                                      *)
(***************************************************************************)
EXTENDS Integers, Sequences, FiniteSets, TLC

VARIABLES
    str_tag,      \* the argument of the running convert_bbg_tenor_tag call
    tenor_ret,    \* what convert_bbg_tenor_tag(str_tag) gave
    ois_in,       \* the arguments and the provider's answer of a get_ois call
    ois_ret,      \* what get_ois gave
    cache,        \* the lru_cache of one memoized method, least recent first
    upstream,     \* the provider's current data for the watched arguments
    n_fresh,      \* how many never-seen argument tuples were used so far
    first_val,    \* history: the first result ever obtained for the watched arguments
    latest_val,   \* history: the result of the latest body run for the watched arguments
    since,        \* history: distinct other tuples cached since the watched tuple's last use
    last_call,    \* the latest call of the memoized method and how it ended
    inv           \* the latest facade call: its arguments, provider calls and result

vars == <<str_tag, tenor_ret, ois_in, ois_ret, cache, upstream, n_fresh,
          first_val, latest_val, since, last_call, inv>>

tenor_vars  == <<str_tag, tenor_ret>>
ois_vars    == <<ois_in, ois_ret>>
cache_vars  == <<cache, upstream, n_fresh, first_val, latest_val, since, last_call>>
facade_vars == <<inv>>

(***************************************************************************)
(* Text helpers                                                            *)
(***************************************************************************)
Digits == {"0", "1", "2", "3", "4", "5", "6", "7", "8", "9"}

DigitVal(c) ==
    CASE c = "0" -> 0 [] c = "1" -> 1 [] c = "2" -> 2 [] c = "3" -> 3
      [] c = "4" -> 4 [] c = "5" -> 5 [] c = "6" -> 6 [] c = "7" -> 7
      [] c = "8" -> 8 [] c = "9" -> 9

\* str.lower() on one character
LowerChar(c) ==
    CASE c = "A" -> "a" [] c = "B" -> "b" [] c = "C" -> "c" [] c = "D" -> "d"
      [] c = "E" -> "e" [] c = "F" -> "f" [] c = "G" -> "g" [] c = "H" -> "h"
      [] c = "I" -> "i" [] c = "J" -> "j" [] c = "K" -> "k" [] c = "L" -> "l"
      [] c = "M" -> "m" [] c = "N" -> "n" [] c = "O" -> "o" [] c = "P" -> "p"
      [] c = "Q" -> "q" [] c = "R" -> "r" [] c = "S" -> "s" [] c = "T" -> "t"
      [] c = "U" -> "u" [] c = "V" -> "v" [] c = "W" -> "w" [] c = "X" -> "x"
      [] c = "Y" -> "y" [] c = "Z" -> "z" [] OTHER -> c

\* str.lower()
Lower(s) == [i \in 1..Len(s) |-> LowerChar(s[i])]

\* the number of digits of s from position i on
RECURSIVE DigitsFrom(_, _)
DigitsFrom(s, i) ==
    IF i <= Len(s) /\ s[i] \in Digits THEN 1 + DigitsFrom(s, i + 1) ELSE 0

(***************************************************************************)
(* split_letters_numbers: re.split(r'(\d*\.\d+|\d+)', str_in), then the    *)
(* first '' of the list removed.                                           *)
(***************************************************************************)
\* The length of the match of \d*\.\d+|\d+ that starts at position i, 0 when
\* there is none.  The first alternative is tried first and is greedy.
MatchLen(s, i) ==
    LET d == DigitsFrom(s, i)
        frac == IF i + d <= Len(s) /\ s[i + d] = "." THEN DigitsFrom(s, i + d + 1) ELSE 0
    IN  IF frac > 0 THEN d + 1 + frac ELSE d

\* re.split with one capturing group: the text before each match, the match,
\* and at the end the text after the last match.
RECURSIVE ReSplit(_, _, _)
ReSplit(s, st, i) ==
    IF i > Len(s) THEN <<SubSeq(s, st, Len(s))>>
    ELSE LET n == MatchLen(s, i)
         IN  IF n > 0
             THEN <<SubSeq(s, st, i - 1), SubSeq(s, i, i + n - 1)>> \o ReSplit(s, i + n, i + n)
             ELSE ReSplit(s, st, i + 1)

\* list.remove(''): the first empty element dropped
RECURSIVE RemoveFirstEmpty(_)
RemoveFirstEmpty(l) ==
    IF l = <<>> THEN <<>>
    ELSE IF Head(l) = <<>> THEN Tail(l)
    ELSE <<Head(l)>> \o RemoveFirstEmpty(Tail(l))

split_letters_numbers(str_in) == RemoveFirstEmpty(ReSplit(str_in, 1, 1))

(***************************************************************************)
(* convert_bbg_tenor_tag                                                   *)
(***************************************************************************)
Error(kind) == [ok |-> FALSE, err |-> kind]

\* the value of a run of decimal digits
RECURSIVE DigitsValue(_)
DigitsValue(s) ==
    IF s = <<>> THEN 0
    ELSE 10 * DigitsValue(SubSeq(s, 1, Len(s) - 1)) + DigitVal(s[Len(s)])

\* int(num) accepts a string of digits.  (It also accepts blanks, a sign and
\* underscores around digits; num is a match of the pattern or text without
\* any digit, so those forms do not arise.)
IntAccepts(num) == num # <<>> /\ \A i \in 1..Len(num) : num[i] \in Digits

\* a faulty variant of MultDen: the else branch takes the tag as years instead of raising
MultDenElseYears(letter) ==
    LET l == Lower(letter)
    IN  IF l = <<"d">> THEN 365
        ELSE IF l = <<"w">> THEN 52
        ELSE IF l = <<"m">> THEN 12
        ELSE 1

\* the if/elif chain on letter.lower(): the denominator of mult, 0 for the else
MultDen(letter) ==
    LET l == Lower(letter)
    IN  IF l = <<"d">> THEN 365
        ELSE IF l = <<"w">> THEN 52
        ELSE IF l = <<"m">> THEN 12
        ELSE IF l = <<"y">> THEN 1
        ELSE 0

convert_bbg_tenor_tag(tag) ==
    LET ret == split_letters_numbers(tag)
    IN  IF Len(ret) # 2 THEN Error("ValueError")              \* (num, letter) = ...
        ELSE IF ~IntAccepts(ret[1]) THEN Error("ValueError")  \* int(num)
        ELSE IF MultDen(ret[2]) = 0 THEN Error("TypeError")   \* raise(TypeError(...))
        ELSE [ok |-> TRUE, num |-> DigitsValue(ret[1]), den |-> MultDen(ret[2])]

(***************************************************************************)
(* Provider calls.  A facade method is modelled as a function of its       *)
(* arguments and of what the provider does on each call it makes; it gives *)
(* the provider calls it issued, in order, and its result.                 *)
(***************************************************************************)
Absent == "absent"

\* a keyword argument of a call: passed with a value, or not passed
Passed(v) == <<v>>
NotPassed == <<>>

\* self.dm.get_reference_data(sids, flds, *extra, ignore_security_error=ise,
\* ignore_field_error=ife, **overrides), as the call site writes it
RefCall(sids, flds, extra, ise, ife, overrides) ==
    [fn |-> "get_reference_data", sids |-> sids, flds |-> flds, extra |-> extra,
     ise |-> ise, ife |-> ife, overrides |-> overrides]

\* self.dm.get_historical(sids, flds, start, end, *extra, ...)
HistCall(sids, flds, start, end, extra, ise, ife, overrides) ==
    [fn |-> "get_historical", sids |-> sids, flds |-> <<flds, start, end>>, extra |-> extra,
     ise |-> ise, ife |-> ife, overrides |-> overrides]

\* what a facade call leaves: the provider calls it issued and its result
Outcome(calls, ret) == [calls |-> calls, ret |-> ret]

\* the error the provider raised, passed on as it is (no try/except anywhere)
ProviderError == Error("provider")

(***************************************************************************)
(* get_ois                                                                 *)
(***************************************************************************)
\* fractions [num, den] with den > 0
RatLess(a, b) == a.num * b.den < b.num * a.den
RatEq(a, b)   == a.num * b.den = b.num * a.den

\* the if/elif chain on str_currency.lower(); Absent: str_curve is left unbound
CurveTicker(str_currency) ==
    LET c == Lower(str_currency)
    IN  IF c = <<"u", "s", "d">> THEN "YCSW0042 Index"
        ELSE IF c = <<"e", "u", "r">> THEN "YCSW0133 Index"
        ELSE IF c = <<"g", "b", "p">> THEN "YCSW0141 Index"
        ELSE IF c = <<"c", "a", "d">> THEN "YCSW0147 Index"
        ELSE Absent

\* n as `width` decimal digits, zero-padded
RECURSIVE PadDigits(_, _)
PadDigits(n, width) ==
    IF width = 0 THEN <<>>
    ELSE PadDigits(n \div 10, width - 1)
         \o <<CHOOSE c \in Digits : DigitVal(c) = n % 10>>

\* date.strftime('%Y%m%d') unless date is a str already
CurveDate(date) ==
    IF date.is_str THEN date.text
    ELSE PadDigits(date.y, 4) \o PadDigits(date.m, 2) \o PadDigits(date.d, 2)

\* [self.convert_bbg_tenor_tag(l) for l in ret_curve['tenor']]
ConvertTenors(curve) == [i \in 1..Len(curve) |-> convert_bbg_tenor_tag(curve[i].tenor)]

\* min(ret_curve['tenor']) of a non-empty list of converted tenors
MinTenor(ts) ==
    ts[CHOOSE i \in 1..Len(ts) : \A j \in 1..Len(ts) : ~RatLess(ts[j], ts[i])]

\* a faulty variant of FlatRate: the first row of the curve instead of the row at the
\* minimum tenor
FlatRateFirstRow(curve, ts, num_side) ==
    [ok |-> TRUE, value |-> curve[1][num_side]]

\* float(ret_curve[ret_curve['tenor'] == min(ret_curve['tenor'])][num_side]):
\* the rows at the minimum tenor; float() takes a selection of one row only
FlatRate(curve, ts, num_side) ==
    LET rows == {i \in 1..Len(ts) : RatEq(ts[i], MinTenor(ts))}
    IN  IF Cardinality(rows) = 1
        THEN [ok |-> TRUE, value |-> curve[CHOOSE i \in rows : TRUE][num_side]]
        ELSE Error("TypeError")

\* scipy.interpolate.interp1d(tenors, rates, kind='cubic')(tgt_tenor): the
\* library's value (or its error) at these arguments
Interp1dCubic(curve, ts, num_side, tgt_tenor) ==
    [ok |-> TRUE,
     value |-> [interp1d |-> "cubic",
                x |-> [i \in 1..Len(ts) |-> <<ts[i].num, ts[i].den>>],
                y |-> [i \in 1..Len(ts) |-> curve[i][num_side]],
                at |-> <<tgt_tenor.num, tgt_tenor.den>>]]

\* ret_curve with its tenor column converted
WithTenors(curve, ts) ==
    [i \in 1..Len(curve) |-> [curve[i] EXCEPT !.tenor = <<ts[i].num, ts[i].den>>]]

\* resp is what the provider does on the one call: it fails, or gives a curve
get_ois(date, tgt_tenor, str_currency, num_side, resp) ==
    IF CurveTicker(str_currency) = Absent
    THEN Outcome(<<>>, Error("UnboundLocalError"))
    ELSE
    LET call == RefCall(CurveTicker(str_currency), "curve_tenor_rates", <<>>, NotPassed, NotPassed,
                        <<<<"curve_date", CurveDate(date)>>>>)
        ts   == ConvertTenors(resp.value)
        bad  == {i \in 1..Len(ts) : ~ts[i].ok}
        rate == IF RatLess(tgt_tenor, MinTenor(ts))
                THEN FlatRate(resp.value, ts, num_side)
                ELSE Interp1dCubic(resp.value, ts, num_side, tgt_tenor)
    IN  IF ~resp.ok THEN Outcome(<<call>>, ProviderError)
        ELSE IF bad # {}
             THEN Outcome(<<call>>, ts[CHOOSE i \in bad : \A j \in bad : i <= j])
        ELSE IF Len(ts) = 0 THEN Outcome(<<call>>, Error("ValueError"))   \* min([])
        ELSE IF ~rate.ok THEN Outcome(<<call>>, rate)
        ELSE Outcome(<<call>>, [ok |-> TRUE, rate |-> rate.value,
                                curve |-> WithTenors(resp.value, ts)])

(***************************************************************************)
(* The facade methods.  resp, resp1, resp2 are what the provider does on   *)
(* the method's first and second call: [ok |-> FALSE] when the call        *)
(* raises, [ok |-> TRUE, value |-> ...] when it answers.  Frames no claim  *)
(* reads are kept as the provider's value.                                 *)
(***************************************************************************)
Ok(v) == [ok |-> TRUE, value |-> v]

\* the provider raises
Fail == [ok |-> FALSE, value |-> <<>>]

\* str.split(): the maximal runs of non-blank characters
RECURSIVE SplitFrom(_, _, _)
SplitFrom(s, i, word) ==
    IF i > Len(s) THEN (IF word = <<>> THEN <<>> ELSE <<word>>)
    ELSE IF s[i] = " "
         THEN (IF word = <<>> THEN <<>> ELSE <<word>>) \o SplitFrom(s, i + 1, <<>>)
         ELSE SplitFrom(s, i + 1, Append(word, s[i]))

Split(s) == SplitFrom(s, 1, <<>>)

Comb == <<" ", "C", "O", "M", "B">>

\* str.replace(' COMB', ''): every occurrence, found left to right, is left out
RECURSIVE ReplaceComb(_, _)
ReplaceComb(s, i) ==
    IF i > Len(s) THEN <<>>
    ELSE IF i + Len(Comb) - 1 <= Len(s) /\ SubSeq(s, i, i + Len(Comb) - 1) = Comb
         THEN ReplaceComb(s, i + Len(Comb))
         ELSE <<s[i]>> \o ReplaceComb(s, i + 1)

\* a faulty variant of StripComb: only the first occurrence is left out
RECURSIVE ReplaceCombOnce(_, _)
ReplaceCombOnce(s, i) ==
    IF i > Len(s) THEN <<>>
    ELSE IF i + Len(Comb) - 1 <= Len(s) /\ SubSeq(s, i, i + Len(Comb) - 1) = Comb
         THEN SubSeq(s, i + Len(Comb), Len(s))
         ELSE <<s[i]>> \o ReplaceCombOnce(s, i + 1)

StripCombFirstOnly(x) == ReplaceCombOnce(x, 1)

\* x.replace(' COMB', '')
StripComb(x) == ReplaceComb(x, 1)

TxtEquity == <<"e", "q", "u", "i", "t", "y">>
TxtComdty == <<"c", "o", "m", "d", "t", "y">>
TxtUnderlyingSecurityDes == <<"u", "n", "d", "e", "r", "l", "y", "i", "n", "g", "_", "s", "e", "c", "u", "r", "i", "t", "y", "_", "d", "e", "s">>

\* a faulty variant of get_futures_curve: the failure of the first call is swallowed and
\* the second call is made
get_futures_curve_swallows(str_ticker, b_include_historical, resp1, resp2) ==
    LET call1 == RefCall(str_ticker, "fut_chain",
                         <<IF b_include_historical THEN "include_expired_contracts=Y" ELSE "None">>,
                         NotPassed, NotPassed, <<>>)
        call2 == RefCall(resp1.value, <<"fut_month_yr", "last_tradeable_dt">>, <<>>,
                         NotPassed, NotPassed, <<>>)
    IN  IF ~resp2.ok THEN Outcome(<<call1, call2>>, ProviderError)
        ELSE Outcome(<<call1, call2>>, Ok(resp2.value))

\* get_futures_curve: the chain, then the months and last trade dates of its tickers
get_futures_curve(str_ticker, b_include_historical, resp1, resp2) ==
    LET call1 == RefCall(str_ticker, "fut_chain",
                         <<IF b_include_historical THEN "include_expired_contracts=Y" ELSE "None">>,
                         NotPassed, NotPassed, <<>>)
        call2 == RefCall(resp1.value, <<"fut_month_yr", "last_tradeable_dt">>, <<>>,
                         NotPassed, NotPassed, <<>>)
    IN  IF ~resp1.ok THEN Outcome(<<call1>>, ProviderError)
        ELSE IF ~resp2.ok THEN Outcome(<<call1, call2>>, ProviderError)
        ELSE Outcome(<<call1, call2>>, Ok(resp2.value))

get_option_futures_chain(str_ticker, resp) ==
    LET call == RefCall(str_ticker, "opt_futures_chain_dates", <<>>, NotPassed, NotPassed, <<>>)
    IN  IF ~resp.ok THEN Outcome(<<call>>, ProviderError)
        ELSE Outcome(<<call>>, Ok(resp.value))

\* a faulty variant of OptionFields: any other type gets the default fields instead of
\* raising
OptionFieldsElseDefault(str_type) ==
    IF Lower(str_type) = TxtEquity THEN "default+opt_expire_dt"
    ELSE IF Lower(str_type) = TxtComdty THEN "default+opt_expire_dt+current_contract_month_yr"
    ELSE "default"

\* the renamed vendor fields of get_option_fields, by security type
OptionFields(str_type) ==
    IF Lower(str_type) = TxtEquity THEN "default+opt_expire_dt"
    ELSE IF Lower(str_type) = TxtComdty THEN "default+opt_expire_dt+current_contract_month_yr"
    ELSE Absent

\* str_ticker is one ticker (is_str) or a chain of tickers; resp.value is the
\* underlying_security_des text of each row of the provider's frame
get_option_fields(str_ticker, resp) ==
    LET first  == IF str_ticker.is_str THEN str_ticker.v ELSE str_ticker.v[1]
        tokens == Split(first)
        call   == RefCall(str_ticker.v, OptionFields(tokens[Len(tokens)]), <<>>, NotPassed, NotPassed, <<>>)
    IN  IF ~str_ticker.is_str /\ Len(str_ticker.v) = 0
        THEN Outcome(<<>>, Error("IndexError"))                     \* str_ticker[0]
        ELSE IF Len(tokens) = 0 THEN Outcome(<<>>, Error("IndexError"))  \* .split()[-1]
        ELSE IF OptionFields(tokens[Len(tokens)]) = Absent
             THEN Outcome(<<>>, Error("TypeError"))
        ELSE IF ~resp.ok THEN Outcome(<<call>>, ProviderError)
        ELSE Outcome(<<call>>,
                     Ok([i \in 1..Len(resp.value) |-> [underlying_ticker |-> StripComb(resp.value[i])]]))

\* resp1.value is the option chain (the tickers of its first column)
get_option_spread(str_ticker, b_complete_spread, resp1, resp2) ==
    LET call1  == RefCall(str_ticker, "opt_chain", <<>>, NotPassed, NotPassed, <<>>)
        fields == get_option_fields([is_str |-> FALSE, v |-> resp1.value], resp2)
    IN  IF ~resp1.ok THEN Outcome(<<call1>>, ProviderError)
        ELSE IF b_complete_spread THEN Outcome(<<call1>> \o fields.calls, fields.ret)
        ELSE Outcome(<<call1>>, Ok(resp1.value))

\* a faulty variant of get_general_fields: the caller's flags are passed on
get_general_fields_passes_flags(str_ticker, str_fields, ignore_security_error, ignore_field_error, overrides, resp) ==
    LET call == RefCall(str_ticker, str_fields, <<>>, Passed(ignore_security_error),
                        Passed(ignore_field_error), overrides)
    IN  IF ~resp.ok THEN Outcome(<<call>>, ProviderError)
        ELSE Outcome(<<call>>, Ok(resp.value))

\* the caller's two flags are parameters; the call passes 0 for both
get_general_fields(str_ticker, str_fields, ignore_security_error, ignore_field_error, overrides, resp) ==
    LET call == RefCall(str_ticker, str_fields, <<>>, Passed(0), Passed(0), overrides)
    IN  IF ~resp.ok THEN Outcome(<<call>>, ProviderError)
        ELSE Outcome(<<call>>, Ok(resp.value))

get_general_field_single(str_ticker, str_field, resp) ==
    LET call == RefCall(str_ticker, str_field, <<>>, NotPassed, NotPassed, <<>>)
    IN  IF ~resp.ok THEN Outcome(<<call>>, ProviderError)
        ELSE IF Lower(str_field) = TxtUnderlyingSecurityDes
             THEN Outcome(<<call>>, Ok(StripComb(resp.value)))
        ELSE Outcome(<<call>>, Ok(resp.value))

\* the frame's column index has the levels (security, field); droplevel(0)
\* leaves (field)
get_historical_quick(str_tickers, str_fields, dt_beg, dt_end, resp) ==
    LET call == HistCall(str_tickers.v, str_fields, dt_beg, dt_end, <<>>, NotPassed, NotPassed, <<>>)
        levels == <<"security", "field">>
    IN  IF ~resp.ok THEN Outcome(<<call>>, ProviderError)
        ELSE Outcome(<<call>>, [ok |-> TRUE, value |-> resp.value,
                                levels |-> IF str_tickers.is_str THEN Tail(levels) ELSE levels])

get_historical_quick_single(str_tickers, str_fields, dt_tgt, resp) ==
    LET call == HistCall(str_tickers.v, str_fields, dt_tgt, dt_tgt, <<>>, NotPassed, NotPassed, <<>>)
    IN  IF ~resp.ok THEN Outcome(<<call>>, ProviderError)
        ELSE Outcome(<<call>>, Ok(resp.value))

get_historical(sids, fields, dt_beg, dt_end, period, overrides, resp) ==
    LET call == HistCall(sids, fields, dt_beg, dt_end, <<period>>, Passed(0), Passed(0), overrides)
    IN  IF ~resp.ok THEN Outcome(<<call>>, ProviderError)
        ELSE Outcome(<<call>>, Ok(resp.value))

get_options_underlying(str_ticker, resp) ==
    LET call == RefCall(str_ticker, "opt_undl_ticker", <<>>, NotPassed, NotPassed, <<>>)
    IN  IF ~resp.ok THEN Outcome(<<call>>, ProviderError)
        ELSE Outcome(<<call>>, Ok(resp.value))

(***************************************************************************)
(* The tenor specification: convert_bbg_tenor_tag applied to a tag.        *)
(***************************************************************************)
MaxTagLen == 4

TagAlphabet == {"1", "5", ".", "M", "y", "Q"}

\* the tags of the documentation and of real curves, beside the bounded ones
ExampleTags ==
    { <<"1", "D">>, <<"2", "W">>, <<"3", "M">>, <<"4", "Y">>, <<"2", ".", "5", "M">>,
      <<"1", "d">>, <<"2", "w">>, <<"3", "m">>, <<"4", "y">>, <<"2", ".", "5", "m">>,
      <<"a", "b", "c">>, <<"5">>, <<"Q">>, <<"1", "0", "Y">>, <<"1", "8", "M">>,
      <<"1", " ", "M">>, <<"1", "M", "2", "Y">> }

Tags == UNION {[1..k -> TagAlphabet] : k \in 0..MaxTagLen} \cup ExampleTags

NotCalled == [ok |-> FALSE, err |-> "not called"]

Called(r) == r.ok \/ r.err # "not called"

Idle == "idle"

TenorIdle  == str_tag = Idle /\ tenor_ret = Idle
OisIdle    == ois_in = Idle /\ ois_ret = Idle
CacheIdle  == /\ cache = Idle /\ upstream = Idle /\ n_fresh = Idle
              /\ first_val = Idle /\ latest_val = Idle /\ since = Idle
              /\ last_call = Idle
FacadeIdle == inv = Idle

InitTenor ==
    /\ str_tag \in Tags
    /\ tenor_ret = NotCalled
    /\ OisIdle /\ CacheIdle /\ FacadeIdle

ConvertTag ==
    /\ ~Called(tenor_ret)
    /\ tenor_ret' = convert_bbg_tenor_tag(str_tag)
    /\ UNCHANGED <<str_tag, ois_vars, cache_vars, facade_vars>>

NextTenor == ConvertTag

SpecTenor == InitTenor /\ [][NextTenor]_vars

(***************************************************************************)
(* C1, C4: the tenor claims                                                *)
(***************************************************************************)
AllDigits(s) == s # <<>> /\ \A i \in 1..Len(s) : s[i] \in Digits

UnitLetters == {"d", "w", "m", "y"}

\* A magnitude as the documentation has it: an integer, or a decimal such as 2.5
IsMagnitude(s) ==
    \/ AllDigits(s)
    \/ \E p \in 2..(Len(s) - 1) :
          /\ s[p] = "."
          /\ AllDigits(SubSeq(s, 1, p - 1))
          /\ AllDigits(SubSeq(s, p + 1, Len(s)))

IsTenorLabel(tag) ==
    /\ Len(tag) >= 2
    /\ LowerChar(tag[Len(tag)]) \in UnitLetters
    /\ IsMagnitude(SubSeq(tag, 1, Len(tag) - 1))

RECURSIVE Pow10(_)
Pow10(n) == IF n = 0 THEN 1 ELSE 10 * Pow10(n - 1)

\* the magnitude s as the fraction <<numerator, denominator>>
MagnitudeOf(s) ==
    IF AllDigits(s) THEN <<DigitsValue(s), 1>>
    ELSE LET p == CHOOSE q \in 1..Len(s) : s[q] = "."
         IN  <<DigitsValue(SubSeq(s, 1, p - 1) \o SubSeq(s, p + 1, Len(s))),
               Pow10(Len(s) - p)>>

\* the documented factor of a unit letter is 1/FactorDen
FactorDen(u) ==
    CASE LowerChar(u) = "d" -> 365 [] LowerChar(u) = "w" -> 52
      [] LowerChar(u) = "m" -> 12  [] LowerChar(u) = "y" -> 1

\* C1: every tenor label (an integer or decimal magnitude followed by one unit
\* letter of D, W, M, Y in either case) converts to magnitude x factor.
C1_LabelConverts ==
    (Called(tenor_ret) /\ IsTenorLabel(str_tag)) =>
        LET mag == MagnitudeOf(SubSeq(str_tag, 1, Len(str_tag) - 1))
            fd  == FactorDen(str_tag[Len(str_tag)])
        IN  /\ tenor_ret.ok
            /\ tenor_ret.num * (mag[2] * fd) = mag[1] * tenor_ret.den

\* the part of C1 the code does meet: labels whose magnitude is an integer
IntegerLabelConverts ==
    (Called(tenor_ret) /\ IsTenorLabel(str_tag)
        /\ AllDigits(SubSeq(str_tag, 1, Len(str_tag) - 1))) =>
        /\ tenor_ret.ok
        /\ tenor_ret.num = DigitsValue(SubSeq(str_tag, 1, Len(str_tag) - 1))
        /\ tenor_ret.den = FactorDen(str_tag[Len(str_tag)])

\* the number of numeric runs (matches of the pattern) of s from position i on
RECURSIVE NumericRuns(_, _)
NumericRuns(s, i) ==
    IF i > Len(s) THEN 0
    ELSE IF MatchLen(s, i) > 0 THEN 1 + NumericRuns(s, i + MatchLen(s, i))
    ELSE NumericRuns(s, i + 1)

\* the text after the last digit of s (all of s when it has no digit)
TrailingUnit(s) ==
    LET ds == {i \in 1..Len(s) : s[i] \in Digits}
    IN  IF ds = {} THEN s
        ELSE SubSeq(s, (CHOOSE i \in ds : \A j \in ds : j <= i) + 1, Len(s))

Malformed(tag) ==
    \/ NumericRuns(tag, 1) = 0
    \/ NumericRuns(tag, 1) > 1
    \/ TrailingUnit(tag) = <<>>
    \/ Len(TrailingUnit(tag)) # 1
    \/ LowerChar(TrailingUnit(tag)[1]) \notin UnitLetters

\* C4: a tag with no numeric run, with several numeric runs, with no unit
\* letter after the number, or with a trailing unit that is not exactly one
\* letter of D, W, M, Y (either case) makes convert_bbg_tenor_tag fail.
C4_MalformedFails ==
    (Called(tenor_ret) /\ Malformed(str_tag)) => ~tenor_ret.ok

C4_Witness ==
    /\ str_tag \in {<<"5">>, <<"Q">>, <<"a", "b", "c">>, <<"1", "M", "2", "Y">>}
    /\ Called(tenor_ret)
    /\ ~tenor_ret.ok

(***************************************************************************)
(* The OIS specification: get_ois applied to a curve the provider gives.   *)
(***************************************************************************)
MaxRows == 4

\* curve rows: a tenor tag and the three yields, in hundredths of a percent
CurveRow(tag, mid) == [tenor |-> tag, bid |-> mid - 1, mid |-> mid, ask |-> mid + 1]

RowPool ==
    { CurveRow(<<"1", "Y">>, 100), CurveRow(<<"2", "Y">>, 120),
      CurveRow(<<"3", "Y">>, 130), CurveRow(<<"6", "Y">>, 150),
      CurveRow(<<"6", "M">>, 90),  CurveRow(<<"1", "2", "m">>, 96),
      CurveRow(<<"2", ".", "5", "M">>, 80) }

Curves == UNION {[1..k -> RowPool] : k \in 0..MaxRows}

Sides == {"bid", "mid", "ask"}

Targets == { [num |-> 1, den |-> 4], [num |-> 1, den |-> 2], [num |-> 5, den |-> 2] }

Today == [is_str |-> FALSE, y |-> 2019, m |-> 5, d |-> 2]

ProviderResponses == {Fail} \cup {Ok(c) : c \in Curves}

InitOis ==
    /\ ois_in \in [date : {Today}, tgt_tenor : Targets, str_currency : {<<"u", "s", "d">>},
                   num_side : Sides, resp : ProviderResponses]
    /\ ois_ret = NotCalled
    /\ TenorIdle /\ CacheIdle /\ FacadeIdle

CallGetOis ==
    /\ ~Called(ois_ret)
    /\ ois_ret' = get_ois(ois_in.date, ois_in.tgt_tenor, ois_in.str_currency,
                          ois_in.num_side, ois_in.resp).ret
    /\ UNCHANGED <<ois_in, tenor_vars, cache_vars, facade_vars>>

NextOis == CallGetOis

SpecOis == InitOis /\ [][NextOis]_vars

(***************************************************************************)
(* C2: flat extrapolation below the shortest tenor                         *)
(***************************************************************************)
\* the tenor of a row in years, as a fraction, read off its label
YearsOf(row) ==
    LET tag == row.tenor
        mag == MagnitudeOf(SubSeq(tag, 1, Len(tag) - 1))
    IN  [num |-> mag[1], den |-> mag[2] * FactorDen(tag[Len(tag)])]

\* a curve the provider gave whose labels are integer tenor labels
IntegerCurve(curve) ==
    \A i \in 1..Len(curve) :
        /\ IsTenorLabel(curve[i].tenor)
        /\ AllDigits(SubSeq(curve[i].tenor, 1, Len(curve[i].tenor) - 1))

UniqueTenors(curve) ==
    \A i, j \in 1..Len(curve) : i # j => ~RatEq(YearsOf(curve[i]), YearsOf(curve[j]))

BelowShortest(tgt, curve) ==
    \A i \in 1..Len(curve) : RatLess(tgt, YearsOf(curve[i]))

\* the case of C2: the provider answered with a non-empty curve of unique
\* tenors, and the target is below every tenor of it
C2_Case ==
    /\ Called(ois_ret)
    /\ ois_in.resp.ok
    /\ Len(ois_in.resp.value) > 0
    /\ IntegerCurve(ois_in.resp.value)
    /\ UniqueTenors(ois_in.resp.value)
    /\ BelowShortest(ois_in.tgt_tenor, ois_in.resp.value)

CacheMaxSize == 128

MaxFresh == 129

MaxVersion == 1

\* argument tuples: the watched one, and the n-th of the others
Watched == <<"watched", 0>>
FreshKey(n) == <<"fresh", n>>

\* a history value: nothing yet, or a result
None == <<>>
Some(v) == <<v>>

CacheKeys(c) == {c[i][1] : i \in 1..Len(c)}

CacheGet(c, k) == c[CHOOSE i \in 1..Len(c) : c[i][1] = k][2]

\* a hit makes the entry the most recently used one
CacheTouch(c, k) ==
    SelectSeq(c, LAMBDA e : e[1] # k) \o <<<<k, CacheGet(c, k)>>>>

\* a faulty variant of CachePut: a cache that never drops an entry (maxsize=None)
CachePutUnbounded(c, k, v) == Append(c, <<k, v>>)

\* a new result is stored; a full cache drops its least recently used entry
CachePut(c, k, v) ==
    IF Len(c) >= CacheMaxSize THEN Append(Tail(c), <<k, v>>) ELSE Append(c, <<k, v>>)

\* a faulty variant of AfterRaise: the error is stored like a result
AfterRaiseStoresError(c, k, err) ==
    IF Len(c) >= CacheMaxSize THEN Append(Tail(c), <<k, err>>) ELSE Append(c, <<k, err>>)

\* the body raised: the exception leaves the wrapper before anything is stored
AfterRaise(c, k, err) == c

\* what the provider holds for the arguments k
ProviderData(k) == IF k = Watched THEN upstream ELSE 0

\* the wrapper of lru_cache around the body, called with arguments k
MemoCall(k, provider_ok) ==
    LET hit  == k \in CacheKeys(cache)
        body == get_general_fields(k, "px_last", 0, 0, <<>>,
                                   IF provider_ok THEN Ok(ProviderData(k)) ELSE Fail)
        ret  == IF hit THEN CacheGet(cache, k) ELSE body.ret
    IN  /\ hit => provider_ok
        /\ cache' = IF hit THEN CacheTouch(cache, k)
                    ELSE IF body.ret.ok THEN CachePut(cache, k, body.ret)
                    ELSE AfterRaise(cache, k, body.ret)
        /\ last_call' = [key |-> k,
                         ret |-> ret,
                         body_ran |-> ~hit,
                         n_calls |-> IF hit THEN 0 ELSE Len(body.calls),
                         after_error |-> last_call.key = k /\ ~last_call.ret.ok,
                         had |-> k = Watched /\ first_val # None,
                         others |-> since,
                         expect |-> latest_val]
        /\ IF k = Watched /\ ret.ok
           THEN /\ first_val' = IF first_val = None THEN Some(ret.value) ELSE first_val
                /\ latest_val' = IF hit THEN latest_val ELSE Some(ret.value)
                /\ since' = 0
           ELSE /\ UNCHANGED <<first_val, latest_val>>
                /\ since' = IF ~hit /\ ret.ok THEN since + 1 ELSE since

InitCache ==
    /\ cache = <<>>
    /\ upstream = 0
    /\ n_fresh = 0
    /\ first_val = None
    /\ latest_val = None
    /\ since = 0
    /\ last_call = [key |-> None, ret |-> NotCalled, body_ran |-> FALSE, n_calls |-> 0,
                    after_error |-> FALSE, had |-> FALSE, others |-> 0, expect |-> None]
    /\ TenorIdle /\ OisIdle /\ FacadeIdle

\* a call with the watched arguments
CallWatched ==
    /\ \E provider_ok \in BOOLEAN : MemoCall(Watched, provider_ok)
    /\ UNCHANGED <<upstream, n_fresh, tenor_vars, ois_vars, facade_vars>>

\* a call with arguments never cached before
CallFresh ==
    /\ n_fresh < MaxFresh
    /\ \E provider_ok \in BOOLEAN :
          /\ MemoCall(FreshKey(n_fresh + 1), provider_ok)
          /\ n_fresh' = IF provider_ok THEN n_fresh + 1 ELSE n_fresh
    /\ UNCHANGED <<upstream, tenor_vars, ois_vars, facade_vars>>

\* the provider's data for the watched arguments changes
ProviderChange ==
    /\ upstream < MaxVersion
    /\ upstream' = upstream + 1
    /\ UNCHANGED <<cache, n_fresh, first_val, latest_val, since, last_call,
                   tenor_vars, ois_vars, facade_vars>>

NextCache == CallWatched \/ CallFresh \/ ProviderChange

SpecCache == InitCache /\ [][NextCache]_vars

C10_FailureNotCached ==
    /\ ~last_call.ret.ok => last_call.key \notin CacheKeys(cache)
    /\ last_call.after_error => (last_call.body_ran /\ last_call.n_calls = 1)
    /\ \A i \in 1..Len(cache) : cache[i][2].ok

C10_Witness ==
    /\ last_call.after_error
    /\ last_call.body_ran
    /\ last_call.ret.ok
    /\ last_call.key \in CacheKeys(cache)

(***************************************************************************)
(* The facade specification: any method called with any of a few           *)
(* arguments, the provider answering or raising on each call.  The method  *)
(* bodies are what runs on a cache miss; SpecCache has the lru_cache       *)
(* wrapper.                                                                *)
(***************************************************************************)
MaxChunks == 2

TkAEquity     == <<"A", " ", "E", "q", "u", "i", "t", "y">>
TkClComdty    == <<"C", "L", " ", "C", "O", "M", "D", "T", "Y">>
TkClComdtySp  == <<"c", "l", " ", "c", "o", "m", "d", "t", "y", " ">>
TkSpxIndex    == <<"S", "P", "X", " ", "I", "n", "d", "e", "x">>
TkEquityIndex == <<"E", "q", "u", "i", "t", "y", " ", "I", "n", "d", "e", "x">>
TkEmpty       == <<>>

FacadeTickers == {TkAEquity, TkClComdty, TkClComdtySp, TkSpxIndex, TkEquityIndex, TkEmpty}

FacadeChains == { <<>>, <<TkAEquity>>, <<TkClComdty, TkAEquity>>, <<TkSpxIndex, TkAEquity>> }

\* pieces of underlying-ticker text
Chunks == { Comb, <<"C", "L">>, <<" ", "C", "o", "m", "d", "t", "y">>, <<" ", "C", "O">>, <<"M", "B">> }

RECURSIVE ConcatAll(_)
ConcatAll(ss) == IF ss = <<>> THEN <<>> ELSE Head(ss) \o ConcatAll(Tail(ss))

TxtClz9CombComdty == <<"C", "L", "Z", "9", " ", "C", "O", "M", "B", " ", "C", "o", "m", "d", "t", "y">>
TxtClz9Comdty     == <<"C", "L", "Z", "9", " ", "C", "o", "m", "d", "t", "y">>

Texts ==
    {ConcatAll(ss) : ss \in UNION {[1..k -> Chunks] : k \in 0..MaxChunks}}
        \cup {TxtClz9CombComdty, TxtClz9Comdty, <<" ", "C", "O", " ", "C", "O", "M", "B", "M", "B">>}

SpreadTexts == {TxtClz9CombComdty, <<"C", "L">>}

FieldNames == { TxtUnderlyingSecurityDes, <<"U", "N", "D", "E", "R", "L", "Y", "I", "N", "G", "_", "S", "E", "C", "U", "R", "I", "T", "Y", "_", "D", "E", "S">>,
                <<"U", "n", "d", "e", "r", "l", "y", "i", "n", "g", "_", "S", "e", "c", "u", "r", "i", "t", "y", "_", "D", "e", "s">>, <<"p", "x", "_", "l", "a", "s", "t">>, <<"o", "p", "t", "_", "u", "n", "d", "l", "_", "t", "i", "c", "k", "e", "r">> }

Frames == {Fail, Ok("frame 1"), Ok("frame 2")}

Overrides == { <<>>, << <<"REFERENCE_DATE", "20190502">> >> }

StrDate == [is_str |-> TRUE, text |-> <<"2", "0", "1", "9", "0", "5", "0", "2">>]

FacadeCurves ==
    { << CurveRow(<<"2", "Y">>, 120), CurveRow(<<"1", "Y">>, 100),
         CurveRow(<<"6", "Y">>, 150), CurveRow(<<"3", "Y">>, 130) >>,
      << CurveRow(<<"1", "Y">>, 100), CurveRow(<<"2", ".", "5", "M">>, 80) >>,
      << >> }

\* rows of text, one per requested ticker
TextRows(n, texts) == [1..n -> texts]

InitFacade ==
    /\ inv = [method |-> "none", args |-> <<>>, resps |-> <<>>, calls |-> <<>>, ret |-> NotCalled]
    /\ TenorIdle /\ OisIdle /\ CacheIdle

\* no call was made yet
Fresh == inv.method = "none"

\* the record of a call: what it was given and what it did
Invocation(method, args, resps, out) ==
    [method |-> method, args |-> args, resps |-> resps, calls |-> out.calls, ret |-> out.ret]

Call_get_futures_curve ==
    /\ Fresh
    /\ \E t \in FacadeTickers, b \in BOOLEAN, r1 \in {Fail} \cup {Ok(c) : c \in FacadeChains}, r2 \in Frames :
            inv' = Invocation("get_futures_curve", [str_ticker |-> t, b_include_historical |-> b],
                   <<r1, r2>>, get_futures_curve(t, b, r1, r2))
    /\ UNCHANGED <<tenor_vars, ois_vars, cache_vars>>

Call_get_option_futures_chain ==
    /\ Fresh
    /\ \E t \in FacadeTickers, r \in Frames :
            inv' = Invocation("get_option_futures_chain", [str_ticker |-> t], <<r>>,
                   get_option_futures_chain(t, r))
    /\ UNCHANGED <<tenor_vars, ois_vars, cache_vars>>

Call_get_option_spread ==
    /\ Fresh
    /\ \E t \in FacadeTickers, b \in BOOLEAN, r1 \in {Fail} \cup {Ok(c) : c \in FacadeChains} :
            \E r2 \in {Fail} \cup {Ok(rows) : rows \in TextRows(Len(r1.value), SpreadTexts)} :
                inv' = Invocation("get_option_spread", [str_ticker |-> t, b_complete_spread |-> b],
                       <<r1, r2>>, get_option_spread(t, b, r1, r2))
    /\ UNCHANGED <<tenor_vars, ois_vars, cache_vars>>

Call_get_option_fields ==
    /\ Fresh
    /\ \E a \in {[is_str |-> TRUE, v |-> t] : t \in FacadeTickers}
                 \cup {[is_str |-> FALSE, v |-> c] : c \in FacadeChains} :
            \E r \in {Fail} \cup {Ok(rows) : rows \in TextRows(IF a.is_str THEN 1 ELSE Len(a.v), Texts)} :
                inv' = Invocation("get_option_fields", [str_ticker |-> a], <<r>>, get_option_fields(a, r))
    /\ UNCHANGED <<tenor_vars, ois_vars, cache_vars>>

Call_get_general_fields ==
    /\ Fresh
    /\ \E t \in FacadeTickers, f \in {"px_last", "FWD_CURVE"}, ise \in {0, 1}, ife \in {0, 1},
           o \in Overrides, r \in Frames :
            inv' = Invocation("get_general_fields",
                   [str_ticker |-> t, str_fields |-> f, ignore_security_error |-> ise,
                    ignore_field_error |-> ife, overrides |-> o],
                   <<r>>, get_general_fields(t, f, ise, ife, o, r))
    /\ UNCHANGED <<tenor_vars, ois_vars, cache_vars>>

Call_get_general_field_single ==
    /\ Fresh
    /\ \E t \in FacadeTickers, f \in FieldNames, r \in {Fail} \cup {Ok(x) : x \in Texts} :
            inv' = Invocation("get_general_field_single", [str_ticker |-> t, str_field |-> f], <<r>>,
                   get_general_field_single(t, f, r))
    /\ UNCHANGED <<tenor_vars, ois_vars, cache_vars>>

Call_get_historical_quick ==
    /\ Fresh
    /\ \E a \in {[is_str |-> TRUE, v |-> TkAEquity], [is_str |-> FALSE, v |-> <<TkAEquity>>],
                  [is_str |-> FALSE, v |-> <<TkAEquity, TkClComdty>>],
                  [is_str |-> FALSE, v |-> <<TkAEquity, TkClComdty, TkSpxIndex>>]},
           f \in {"px_last", "volume"}, r \in Frames :
            inv' = Invocation("get_historical_quick", [str_tickers |-> a, str_fields |-> f], <<r>>,
                   get_historical_quick(a, f, "20170101", "20190101", r))
    /\ UNCHANGED <<tenor_vars, ois_vars, cache_vars>>

Call_get_historical_quick_single ==
    /\ Fresh
    /\ \E a \in {[is_str |-> TRUE, v |-> TkAEquity], [is_str |-> FALSE, v |-> <<TkAEquity>>]},
           f \in {"px_last", "volume"}, r \in Frames :
            inv' = Invocation("get_historical_quick_single", [str_tickers |-> a, str_fields |-> f], <<r>>,
                   get_historical_quick_single(a, f, "20190101", r))
    /\ UNCHANGED <<tenor_vars, ois_vars, cache_vars>>

Call_get_historical ==
    /\ Fresh
    /\ \E t \in FacadeTickers, f \in {"px_last", "volume"}, p \in {"DAILY", "WEEKLY"},
           o \in Overrides, r \in Frames :
            inv' = Invocation("get_historical", [sids |-> t, fields |-> f, period |-> p, overrides |-> o],
                   <<r>>, get_historical(t, f, "20050101", "20190101", p, o, r))
    /\ UNCHANGED <<tenor_vars, ois_vars, cache_vars>>

Call_get_ois ==
    /\ Fresh
    /\ \E d \in {Today, StrDate}, tgt \in Targets, c \in {<<"u", "s", "d">>, <<"E", "U", "R">>, <<"j", "p", "y">>},
           side \in Sides, r \in {Fail} \cup {Ok(x) : x \in FacadeCurves} :
            inv' = Invocation("get_ois", [date |-> d, tgt_tenor |-> tgt, str_currency |-> c, num_side |-> side],
                   <<r>>, get_ois(d, tgt, c, side, r))
    /\ UNCHANGED <<tenor_vars, ois_vars, cache_vars>>

Call_get_options_underlying ==
    /\ Fresh
    /\ \E t \in FacadeTickers, r \in Frames :
            inv' = Invocation("get_options_underlying", [str_ticker |-> t], <<r>>, get_options_underlying(t, r))
    /\ UNCHANGED <<tenor_vars, ois_vars, cache_vars>>

Next ==
    \/ Call_get_futures_curve
    \/ Call_get_option_futures_chain
    \/ Call_get_option_spread
    \/ Call_get_option_fields
    \/ Call_get_general_fields
    \/ Call_get_general_field_single
    \/ Call_get_historical_quick
    \/ Call_get_historical_quick_single
    \/ Call_get_historical
    \/ Call_get_ois
    \/ Call_get_options_underlying

Init == InitFacade

Spec == Init /\ [][Next]_vars

(***************************************************************************)
(* C5 .. C9: the facade claims                                             *)
(***************************************************************************)
\* the last blank-separated token of s, read from its end
TypeToken(s) ==
    LET solid == {i \in 1..Len(s) : s[i] # " "}
        e == CHOOSE i \in solid : \A j \in solid : j <= i
        blanks == {i \in 1..e : s[i] = " "}
        b == IF blanks = {} THEN 0 ELSE CHOOSE i \in blanks : \A j \in blanks : j <= i
    IN  IF solid = {} THEN <<>> ELSE SubSeq(s, b + 1, e)

Unsupported(ticker) == Lower(TypeToken(ticker)) \notin {TxtEquity, TxtComdty}

\* C5: get_option_fields on a ticker, or on a chain whose first ticker, has a
\* security type other than equity and comdty (in any case) fails, and that
\* call issues no provider call.
C5_UnsupportedTypeFails ==
    /\ (inv.method = "get_option_fields" /\ inv.args.str_ticker.is_str
            /\ Unsupported(inv.args.str_ticker.v)) =>
          (~inv.ret.ok /\ Len(inv.calls) = 0)
    /\ (inv.method = "get_option_fields" /\ ~inv.args.str_ticker.is_str
            /\ Len(inv.args.str_ticker.v) > 0 /\ Unsupported(inv.args.str_ticker.v[1])) =>
          (~inv.ret.ok /\ Len(inv.calls) = 0)
    /\ (inv.method = "get_option_spread" /\ inv.args.b_complete_spread /\ inv.resps[1].ok
            /\ Len(inv.resps[1].value) > 0 /\ Unsupported(inv.resps[1].value[1])) =>
          (~inv.ret.ok /\ Len(inv.calls) = 1)

C5_Witness ==
    /\ inv.method = "get_option_fields"
    /\ inv.args.str_ticker.is_str
    /\ inv.args.str_ticker.v = TkSpxIndex
    /\ inv.resps[1].ok
    /\ ~inv.ret.ok /\ inv.ret.err = "TypeError"
    /\ Len(inv.calls) = 0

\* C6: a provider call that fails is the last provider call of the method (no
\* retry, no second call), the method gives no result and the provider's
\* error is what the caller gets.
C6_ProviderErrorPropagates ==
    \A i \in 1..Len(inv.calls) :
        ~inv.resps[i].ok =>
            /\ i = Len(inv.calls)
            /\ ~inv.ret.ok
            /\ inv.ret.err = "provider"

C6_Witness ==
    /\ inv.method \in {"get_futures_curve", "get_option_spread"}
    /\ ~inv.resps[1].ok
    /\ inv.resps[2].ok
    /\ Len(inv.calls) = 1
    /\ ~inv.ret.ok /\ inv.ret.err = "provider"

FlagSettingMethods == {"get_general_fields", "get_historical"}

NumSecurities(str_tickers) == IF str_tickers.is_str THEN 1 ELSE Len(str_tickers.v)

\* C8: get_historical_quick drops the security level of the column index
\* exactly when one security was requested, as a string or as a one-element
\* tuple.
C8_DropsIffOneSecurity ==
    (inv.method = "get_historical_quick" /\ inv.ret.ok) =>
        (("security" \notin {inv.ret.levels[i] : i \in 1..Len(inv.ret.levels)})
            <=> NumSecurities(inv.args.str_tickers) = 1)

\* the part of C8 the code does meet: strings and tuples of two or more
DropsForStringKeepsForSeveral ==
    (inv.method = "get_historical_quick" /\ inv.ret.ok
        /\ (inv.args.str_tickers.is_str \/ NumSecurities(inv.args.str_tickers) >= 2)) =>
        (("security" \notin {inv.ret.levels[i] : i \in 1..Len(inv.ret.levels)})
            <=> NumSecurities(inv.args.str_tickers) = 1)

\* an occurrence of the token " COMB" in s starts at p
CombAt(s, p) == p + 4 <= Len(s) /\ \A k \in 1..5 : s[p + k - 1] = Comb[k]

\* s with the characters of every occurrence of the token left out
InComb(s, i) == \E p \in (i - 4)..i : p >= 1 /\ CombAt(s, p)

RECURSIVE KeptUpTo(_, _)
KeptUpTo(s, n) ==
    IF n = 0 THEN <<>>
    ELSE IF InComb(s, n) THEN KeptUpTo(s, n - 1)
    ELSE Append(KeptUpTo(s, n - 1), s[n])

WithoutComb(s) == KeptUpTo(s, Len(s))

HasComb(s) == \E p \in 1..Len(s) : CombAt(s, p)

StrippedAs(out, text) ==
    /\ out = WithoutComb(text)
    /\ ~HasComb(text) => out = text
    /\ text = TxtClz9CombComdty => out = TxtClz9Comdty

\* C9: the underlying ticker of every row of get_option_fields, and the value
\* of get_general_field_single for the field underlying_security_des (in any
\* case), is the provider's text without the token " COMB", every other
\* character kept in order; text without the token, and the value of any other
\* field, is the provider's.
C9_CombStripped ==
    /\ (inv.method = "get_option_fields" /\ inv.ret.ok) =>
          /\ Len(inv.ret.value) = Len(inv.resps[1].value)
          /\ \A i \in 1..Len(inv.ret.value) :
                StrippedAs(inv.ret.value[i].underlying_ticker, inv.resps[1].value[i])
    /\ (inv.method = "get_general_field_single" /\ inv.ret.ok) =>
          IF Lower(inv.args.str_field) = TxtUnderlyingSecurityDes
          THEN StrippedAs(inv.ret.value, inv.resps[1].value)
          ELSE inv.ret.value = inv.resps[1].value

C9_Witness ==
    /\ inv.method = "get_general_field_single"
    /\ inv.args.str_field = <<"U", "N", "D", "E", "R", "L", "Y", "I", "N", "G", "_", "S", "E", "C", "U", "R", "I", "T", "Y", "_", "D", "E", "S">>
    /\ inv.resps[1].ok
    /\ inv.resps[1].value = TxtClz9CombComdty
    /\ inv.ret.ok
    /\ inv.ret.value = TxtClz9Comdty

====
